---------------------------- MODULE Spec2Model ----------------------------
(***************************************************************************)
(* State-machine model of the numeric core of                              *)
(*   src/exercise_3/ex3_utils.py  (one-vs-all logistic regression)         *)
(*   src/exercise_4/ex4_utils.py  (one-hidden-layer neural network)        *)
(*                                                                         *)
(* Conventions.  numpy arrays are functions over 0-based index ranges:     *)
(* a vector of length L is a function on 0..L-1, an r x c matrix is a      *)
(* function on 0..r-1 of functions on 0..c-1.  Real quantities that the    *)
(* claims are about only through their structure (which weight a gradient  *)
(* entry belongs to, which terms an expression contains) are carried       *)
(* symbolically.                                                           *)
(***************************************************************************)
EXTENDS Integers, Sequences, FiniteSets, TLC

VARIABLES
    \* ---- oneVsAll (ex3_utils.py 72-98) ----
    num_labels,      \* argument num_labels
    y,               \* argument y: label vector, 0-based
    n,               \* n = np.size(X,1)
    reg_param,       \* argument reg_param
    theta,           \* theta: num_labels columns, each an n-vector
    fitpc,           \* per call of findOptParam(p): its position
    outcome,         \* findOptParam local: outcome
    initial_theta,   \* findOptParam local: initial_theta
    results,         \* findOptParam local: results (x, success)
    digit,           \* loop variable of line 95
    pcOVA,           \* position of the serial driver
    \* ---- lrCostFunction (ex3_utils.py 40-70) ----
    lrTheta, lrReg, lrM, lrPenalty, lrGradReg, pcLR,
    \* ---- nnCostFunction (ex4_utils.py 66-138) ----
    input_layer_size, hidden_layer_size, nnLabels, nn_params,
    theta1, theta2, costReg, grad1, grad2, grad, pcNN,
    \* ---- checkNNGradients (ex4_utils.py 191-234) ----
    chkReg, chkPhase, chkList, Theta1, Theta2, chkX, chkY, chkParams,
    chkT1, chkT2,
    \* ---- computeNumericalGradient (ex4_utils.py 168-189) ----
    ngTheta, ngArg, ngJ, perturb, numgrad, ngP, loss1, loss2, evals, pcNG,
    \* ---- predict / predictOneVsAllAccuracy ----
    pKind, pX, pNdim, pTheta, pTheta1, pTheta2, pHidden, pOut, pLabels,
    pcPred

ovaVars  == <<num_labels, y, n, reg_param, theta, fitpc, outcome,
              initial_theta, results, digit, pcOVA>>
lrVars   == <<lrTheta, lrReg, lrM, lrPenalty, lrGradReg, pcLR>>
nnVars   == <<input_layer_size, hidden_layer_size, nnLabels, nn_params,
              theta1, theta2, costReg, grad1, grad2, grad, pcNN>>
chkVars  == <<chkReg, chkPhase, chkList, Theta1, Theta2, chkX, chkY,
              chkParams, chkT1, chkT2>>
ngVars   == <<ngTheta, ngArg, ngJ, perturb, numgrad, ngP, loss1, loss2,
              evals, pcNG>>
predVars == <<pKind, pX, pNdim, pTheta, pTheta1, pTheta2, pHidden, pOut,
              pLabels, pcPred>>
vars     == <<ovaVars, lrVars, nnVars, chkVars, ngVars, predVars>>

(***************************************************************************)
(* Generic array helpers.                                                  *)
(***************************************************************************)
Range0(k) == 0 .. (k - 1)

\* np.zeros(k)
Zeros(k) == [i \in Range0(k) |-> 0]

\* len(v) for a 0-based vector
Size(v) == Cardinality(DOMAIN v)

RECURSIVE SumUpTo(_, _)
\* sum of f[0..k-1]
SumUpTo(f, k) == IF k = 0 THEN 0 ELSE f[k - 1] + SumUpTo(f, k - 1)

\* np.sum(v)
Sum(v) == SumUpTo(v, Size(v))

(***************************************************************************)
(* Idle valuations: each specification below runs one group of variables   *)
(* and keeps the others at these values.                                   *)
(***************************************************************************)
IdleOVA ==
    /\ num_labels = 0 /\ y = <<>> /\ n = 0 /\ reg_param = 0 /\ theta = <<>>
    /\ fitpc = <<>> /\ outcome = <<>> /\ initial_theta = <<>>
    /\ results = <<>> /\ digit = 0 /\ pcOVA = "idle"

IdleLR ==
    /\ lrTheta = <<>> /\ lrReg = 0 /\ lrM = 0 /\ lrPenalty = <<0, 1>>
    /\ lrGradReg = {} /\ pcLR = "idle"

IdleNN ==
    /\ input_layer_size = 0 /\ hidden_layer_size = 0 /\ nnLabels = 0
    /\ nn_params = <<>> /\ theta1 = <<>> /\ theta2 = <<>> /\ costReg = {}
    /\ grad1 = <<>> /\ grad2 = <<>> /\ grad = <<>> /\ pcNN = "idle"

IdleChk ==
    /\ chkReg = 0 /\ chkPhase = "idle" /\ chkList = <<>> /\ Theta1 = <<>>
    /\ Theta2 = <<>> /\ chkX = <<>> /\ chkY = <<>> /\ chkParams = <<>>
    /\ chkT1 = <<>> /\ chkT2 = <<>>

IdleNG ==
    /\ ngTheta = <<>> /\ ngArg = <<>> /\ ngJ = "none" /\ perturb = <<>>
    /\ numgrad = <<>> /\ ngP = 0 /\ loss1 = 0 /\ loss2 = 0 /\ evals = <<>>
    /\ pcNG = "idle"

IdlePred ==
    /\ pKind = "none" /\ pX = <<>> /\ pNdim = 0 /\ pTheta = <<>>
    /\ pTheta1 = <<>> /\ pTheta2 = <<>> /\ pHidden = <<>> /\ pOut = <<>>
    /\ pLabels = <<>> /\ pcPred = "idle"

(***************************************************************************)
(* oneVsAll: ex3_utils.py 72-98                                            *)
(***************************************************************************)
\* Largest num_labels tried by the serial driver's specification.
MaxLabels == 11
\* Largest num_labels tried when the class fits are dispatched in any order.
MaxFitLabels == 3
\* Largest number of training examples m = len(y).
MaxExamples == 2
\* Largest n = np.size(X,1).
MaxN == 2
\* Largest reg_param.
MaxReg == 1

\* The literal of "for digit in range(10)".
NumDigits == 10

\* Label vectors of length 1..MaxExamples with values in [0, k).
LabelVectors(k) ==
    UNION {[Range0(m) -> Range0(k)] : m \in 1 .. MaxExamples}

\* outcome = np.array(y == p_num).astype(int)
Outcome(yy, p_num) == [i \in DOMAIN yy |-> IF yy[i] = p_num THEN 1 ELSE 0]

RECURSIVE CodeUpTo(_, _)
CodeUpTo(o, k) == IF k = 0 THEN 0 ELSE o[k - 1] + 2 * CodeUpTo(o, k - 1)

\* The external minimizer (scipy.optimize.minimize, Newton-CG) is a
\* deterministic function of its start vector and of the data it is given;
\* it is carried as a fixed function that depends on each of them, one to one.
MinimizerX(x0, o, reg) ==
    [i \in DOMAIN x0 |->
        x0[i] + 1 + reg + (MaxReg + 2) * CodeUpTo(o, Size(o))]

\* A faulty InitialTheta: the start vector is taken from the neighbouring
\* column (an off-by-one in the column index).
InitialThetaNeighbour(th, p_num) ==
    th[IF p_num + 1 \in DOMAIN th THEN p_num + 1 ELSE p_num]

\* initial_theta = theta[:,p_num]
InitialTheta(th, p_num) == th[p_num]

\* theta[:,p_num] = results.x
StoreColumn(th, p_num, x) == [th EXCEPT ![p_num] = x]

NoResult == [x |-> <<>>, success |-> FALSE]

\* Lines 82-83.  Indexing column p_num of an n x num_labels array raises
\* IndexError when p_num >= num_labels.
FindOptParamEnter(p) ==
    /\ fitpc[p] = "idle"
    /\ outcome' = [outcome EXCEPT ![p] = Outcome(y, p)]
    /\ IF p >= num_labels
       THEN /\ fitpc' = [fitpc EXCEPT ![p] = "IndexError"]
            /\ UNCHANGED initial_theta
       ELSE /\ fitpc' = [fitpc EXCEPT ![p] = "minimize"]
            /\ initial_theta' =
                  [initial_theta EXCEPT ![p] = InitialTheta(theta, p)]
    /\ UNCHANGED <<num_labels, y, n, reg_param, theta, results>>

\* Lines 84-91: the minimizer returns an iterate and a convergence flag; the
\* flag is the minimizer's to decide (maxiter 400 may be reached).
FindOptParamMinimize(p) ==
    /\ fitpc[p] = "minimize"
    /\ \E ok \in BOOLEAN :
          results' = [results EXCEPT ![p] =
                         [x |-> MinimizerX(initial_theta[p], outcome[p],
                                           reg_param),
                          success |-> ok]]
    /\ fitpc' = [fitpc EXCEPT ![p] = "store"]
    /\ UNCHANGED <<num_labels, y, n, reg_param, theta, outcome,
                   initial_theta>>

\* Line 92.
FindOptParamStore(p) ==
    /\ fitpc[p] = "store"
    /\ theta' = StoreColumn(theta, p, results[p].x)
    /\ fitpc' = [fitpc EXCEPT ![p] = "done"]
    \* the call returns: its locals are gone
    /\ outcome' = [outcome EXCEPT ![p] = <<>>]
    /\ initial_theta' = [initial_theta EXCEPT ![p] = <<>>]
    /\ results' = [results EXCEPT ![p] = NoResult]
    /\ UNCHANGED <<num_labels, y, n, reg_param>>

\* Lines 77-78 and the state of the calls not yet made.
InitOneVsAll(maxLabels, calls) ==
    /\ num_labels \in 1 .. maxLabels
    /\ y \in LabelVectors(num_labels)
    /\ n \in 1 .. MaxN
    /\ reg_param \in 0 .. MaxReg
    /\ theta = [c \in Range0(num_labels) |-> Zeros(n)]
    /\ LET ps == IF calls = 0 THEN Range0(num_labels) ELSE Range0(calls)
       IN  /\ fitpc = [p \in ps |-> "idle"]
           /\ outcome = [p \in ps |-> <<>>]
           /\ initial_theta = [p \in ps |-> <<>>]
           /\ results = [p \in ps |-> NoResult]

notOVA == <<lrVars, nnVars, chkVars, ngVars, predVars>>

\* --- the serial driver of lines 95-98 ---
SerialCall ==
    /\ pcOVA = "loop" /\ digit < NumDigits
    /\ FindOptParamEnter(digit)
    /\ pcOVA' = IF digit >= num_labels THEN "IndexError" ELSE "call"
    /\ UNCHANGED <<digit, notOVA>>

SerialMinimize ==
    /\ pcOVA = "call"
    /\ FindOptParamMinimize(digit)
    /\ UNCHANGED <<digit, pcOVA, notOVA>>

SerialStore ==
    /\ pcOVA = "call" /\ fitpc[digit] = "store"
    /\ FindOptParamStore(digit)
    /\ digit' = digit + 1
    /\ pcOVA' = "loop"
    /\ UNCHANGED notOVA

SerialReturn ==
    /\ pcOVA = "loop" /\ digit = NumDigits
    /\ pcOVA' = "returned"
    /\ UNCHANGED <<num_labels, y, n, reg_param, theta, fitpc, outcome,
                   initial_theta, results, digit, notOVA>>

InitOVA ==
    /\ InitOneVsAll(MaxLabels, NumDigits)
    /\ digit = 0 /\ pcOVA = "loop"
    /\ IdleLR /\ IdleNN /\ IdleChk /\ IdleNG /\ IdlePred

NextOVA ==
    \/ SerialCall
    \/ SerialMinimize
    \/ SerialStore
    \/ SerialReturn

SpecOVA == InitOVA /\ [][NextOVA]_vars

\* --- the class fits dispatched in any order and interleaving ---
FitEnter ==
    /\ \E p \in DOMAIN fitpc : FindOptParamEnter(p)
    /\ UNCHANGED <<digit, pcOVA, notOVA>>

FitMinimize ==
    /\ \E p \in DOMAIN fitpc : FindOptParamMinimize(p)
    /\ UNCHANGED <<digit, pcOVA, notOVA>>

FitStore ==
    /\ \E p \in DOMAIN fitpc : FindOptParamStore(p)
    /\ UNCHANGED <<digit, pcOVA, notOVA>>

InitFits ==
    /\ InitOneVsAll(MaxFitLabels, 0)
    /\ digit = 0 /\ pcOVA = "pool"
    /\ IdleLR /\ IdleNN /\ IdleChk /\ IdleNG /\ IdlePred

NextFits ==
    \/ FitEnter
    \/ FitMinimize
    \/ FitStore

SpecFits == InitFits /\ [][NextFits]_vars

\* The column the fit of class c must produce: the minimizer's output for
\* the outcome vector (y == c), started from the zero vector.
FitOf(c) == MinimizerX(Zeros(n), Outcome(y, c), reg_param)

\* C1 (as claimed): oneVsAll runs one class fit for each class label in
\* [0, num_labels) and for no other index, never raises, and on return every
\* column c holds the minimizer's output for (y == c).
C1_OneFitPerClass ==
    /\ pcOVA # "IndexError"
    /\ \A p \in DOMAIN fitpc : fitpc[p] # "idle" => p < num_labels
    /\ pcOVA = "returned" =>
          \A c \in Range0(num_labels) :
              fitpc[c] = "done" /\ theta[c] = FitOf(c)

\* C6 (as claimed): whatever the convergence flag, the returned iterate is
\* stored as column c, no error is raised, and the loop goes on, so that
\* oneVsAll ends with a result once every minimizer call has returned.
C6_NonConvergenceNotFatal ==
    /\ \A p \in DOMAIN fitpc :
          /\ fitpc[p] = "done" => theta[p] = FitOf(p)
          /\ fitpc[p] # "IndexError"
    /\ pcOVA \in {"loop", "call", "returned"}

\* C7: the class fits are independent.  Each fit starts from the all-zero
\* vector and writes only its own column: in every interleaving a column is
\* zero until its own fit has stored, and from then on holds that fit's
\* result, which depends on X, y, reg_param and c alone; so the final theta
\* does not depend on the order of the fits.
C7_FitsIndependent ==
    \A c \in DOMAIN theta :
        /\ fitpc[c] \in {"minimize", "store"} => initial_theta[c] = Zeros(n)
        /\ theta[c] = IF fitpc[c] = "done" THEN FitOf(c) ELSE Zeros(n)

\* C7 witness: the last class has stored its column while class 0 is still
\* inside its minimizer call.
C7_Witness ==
    /\ num_labels >= 2
    /\ fitpc[num_labels - 1] = "done"
    /\ theta[num_labels - 1] = FitOf(num_labels - 1)
    /\ fitpc[0] = "minimize"

(***************************************************************************)
(* lrCostFunction: ex3_utils.py 40-70                                      *)
(***************************************************************************)
\* Largest absolute value of a parameter tried.
MaxThetaAbs == 1

\* theta**2
Square(v) == [i \in DOMAIN v |-> v[i] * v[i]]

\* Lines 51-53, the penalty summand of J: (reg_param/m)*np.sum(theta**2),
\* kept as the fraction <<numerator, denominator>>.
LrPenalty(th, reg, m) == <<reg * Sum(Square(th)), m>>

\* Lines 62-65: the indices i whose gradient entry carries (reg_param/m)*theta[i]:
\* all of them after line 62, all but 0 after line 65.
LrGradRegularized(th) == (DOMAIN th) \ {0}

notLR == <<ovaVars, nnVars, chkVars, ngVars, predVars>>

LrCostFunction ==
    /\ pcLR = "call"
    /\ lrPenalty' = LrPenalty(lrTheta, lrReg, lrM)
    /\ lrGradReg' = LrGradRegularized(lrTheta)
    /\ pcLR' = "returned"
    /\ UNCHANGED <<lrTheta, lrReg, lrM, notLR>>

InitLR ==
    /\ \E k \in 1 .. (MaxN + 1) :
          lrTheta \in [Range0(k) -> (-MaxThetaAbs) .. MaxThetaAbs]
    /\ lrReg \in 0 .. (MaxReg + 1)
    /\ lrM \in 1 .. MaxExamples
    /\ lrPenalty = <<0, 1>> /\ lrGradReg = {} /\ pcLR = "call"
    /\ IdleOVA /\ IdleNN /\ IdleChk /\ IdleNG /\ IdlePred

NextLR ==
    \/ LrCostFunction

SpecLR == InitLR /\ [][NextLR]_vars

\* sum of theta[i]^2 over i in 1..n-1
SumSqNoBias(th) == Sum(Square(th)) - th[0] * th[0]

\* C2 (as claimed): the penalty added to J is (reg_param/m) times the sum of
\* theta[i]^2 over i in 1..n-1 only, so it is the same for every value of the
\* bias term theta[0].
C2_PenaltyExcludesBias ==
    pcLR = "returned" =>
        /\ lrPenalty = <<lrReg * SumSqNoBias(lrTheta), lrM>>
        /\ \A b \in (-MaxThetaAbs) .. MaxThetaAbs :
              LrPenalty([lrTheta EXCEPT ![0] = b], lrReg, lrM) = lrPenalty

(***************************************************************************)
(* nnCostFunction: ex4_utils.py 66-138                                     *)
(***************************************************************************)
\* Largest layer size (input, hidden, labels) tried.
MaxLayer == 2
\* How far beyond the expected length an nn_params may run.
MaxExtra == 2

Min(a, b) == IF a < b THEN a ELSE b

Max(a, b) == IF a > b THEN a ELSE b

\* v[:k]: Python clips the slice to the array
SliceHead(v, k) == [i \in Range0(Min(k, Size(v))) |-> v[i]]

\* v[-k:]: the last k entries, the whole array when it has fewer (and when
\* k = 0, since -0 is 0)
SliceTail(v, k) ==
    LET start == IF k = 0 THEN 0 ELSE Max(Size(v) - k, 0)
    IN  [i \in Range0(Size(v) - start) |-> v[start + i]]

\* ndarray.reshape((r, c)) raises ValueError unless the sizes agree
CanReshape(v, r, c) == Size(v) = r * c

\* A faulty Reshape: column-major (Fortran/Octave) order.
ReshapeColumnMajor(v, r, c) ==
    [i \in Range0(r) |-> [j \in Range0(c) |-> v[j * r + i]]]

\* ndarray.reshape((r, c)): row-major (C) order
Reshape(v, r, c) ==
    [i \in Range0(r) |-> [j \in Range0(c) |-> v[i * c + j]]]

Rows(M) == Size(M)

Cols(M) == IF Size(M) = 0 THEN 0 ELSE Size(M[0])

\* np.shape(M)
Shape(M) == <<Rows(M), Cols(M)>>

\* the row-major flattening np.append and reshape(-1) apply to a matrix
Flatten(M) ==
    [k \in Range0(Rows(M) * Cols(M)) |-> M[k \div Cols(M)][k % Cols(M)]]

\* concatenation of two flat vectors
Concat(a, b) ==
    [k \in Range0(Size(a) + Size(b)) |->
        IF k < Size(a) THEN a[k] ELSE b[k - Size(a)]]

\* np.append(A, B).reshape(-1): both flattened, A first
Unroll(A, B) == Concat(Flatten(A), Flatten(B))

\* The length nn_params is meant to have.
TotalParams(inp, hid, lab) == hid * (inp + 1) + lab * (hid + 1)

\* Lines 78-80
Theta1Slice(params, inp, hid) == SliceHead(params, hid * (inp + 1))

\* Lines 82-84
Theta2Slice(params, hid, lab) == SliceTail(params, (hid + 1) * lab)

\* Lines 124-125: the weights whose squares are summed, theta[:,1:] of each
\* matrix, as positions <<layer, r, c>>.
CostRegPositions(t1, t2) ==
    {<<1, r, c>> : r \in Range0(Rows(t1)), c \in 1 .. (Cols(t1) - 1)}
    \cup {<<2, r, c>> : r \in Range0(Rows(t2)), c \in 1 .. (Cols(t2) - 1)}

\* Lines 128 and 131: grad = (1.0/m)*D + (reg_param/m)*theta.  An entry is
\* carried as the weight it is the derivative for (w, d) and the coefficient
\* of its term (reg_param/m)*theta[r,c] (reg).
GradRegularized(th, layer) ==
    [r \in Range0(Rows(th)) |->
        [c \in Range0(Cols(th)) |->
            [d |-> <<layer, r, c>>, w |-> th[r][c], reg |-> 1]]]

\* Lines 129 and 132: grad[0] = grad[0] - (reg_param/m)*theta[0] takes the
\* term back out of ROW 0, every column of it.
GradBiasFix(g) ==
    [g EXCEPT ![0] = [c \in DOMAIN g[0] |->
                         [g[0][c] EXCEPT !.reg = g[0][c].reg - 1]]]

notNN == <<ovaVars, lrVars, chkVars, ngVars, predVars>>

\* Lines 78-84.
NNReshape ==
    /\ pcNN = "call"
    /\ LET s1 == Theta1Slice(nn_params, input_layer_size, hidden_layer_size)
           s2 == Theta2Slice(nn_params, hidden_layer_size, nnLabels)
       IN  IF ~CanReshape(s1, hidden_layer_size, input_layer_size + 1)
           THEN pcNN' = "ValueError" /\ UNCHANGED <<theta1, theta2>>
           ELSE /\ theta1' = Reshape(s1, hidden_layer_size,
                                     input_layer_size + 1)
                /\ IF ~CanReshape(s2, nnLabels, hidden_layer_size + 1)
                   THEN pcNN' = "ValueError" /\ UNCHANGED theta2
                   ELSE /\ theta2' = Reshape(s2, nnLabels,
                                             hidden_layer_size + 1)
                        /\ pcNN' = "reshaped"
    /\ UNCHANGED <<input_layer_size, hidden_layer_size, nnLabels, nn_params,
                   costReg, grad1, grad2, grad, notNN>>

\* Lines 86-121: one-hot targets, forward pass and the accumulation of D1 and
\* D2 over the m samples.  D1 has the shape of theta1 and D2 that of theta2;
\* their entries are carried symbolically (the d of a gradient entry).
NNAccumulate ==
    /\ pcNN = "reshaped"
    /\ pcNN' = "accumulated"
    /\ UNCHANGED <<input_layer_size, hidden_layer_size, nnLabels, nn_params,
                   theta1, theta2, costReg, grad1, grad2, grad, notNN>>

\* Lines 123-132.
NNRegularize ==
    /\ pcNN = "accumulated"
    /\ costReg' = CostRegPositions(theta1, theta2)
    /\ grad1' = GradBiasFix(GradRegularized(theta1, 1))
    /\ grad2' = GradBiasFix(GradRegularized(theta2, 2))
    /\ pcNN' = "regularized"
    /\ UNCHANGED <<input_layer_size, hidden_layer_size, nnLabels, nn_params,
                   theta1, theta2, grad, notNN>>

\* Lines 134-138.
NNReturn ==
    /\ pcNN = "regularized"
    /\ grad' = Unroll(grad1, grad2)
    /\ pcNN' = "returned"
    /\ UNCHANGED <<input_layer_size, hidden_layer_size, nnLabels, nn_params,
                   theta1, theta2, costReg, grad1, grad2, notNN>>

\* nn_params of length len whose entries are all different, so that every
\* entry tells the position it came from.
ParamVectors(len) ==
    {[k \in Range0(len) |-> k], [k \in Range0(len) |-> 100 + len - k]}

InitNN ==
    /\ input_layer_size \in 1 .. MaxLayer
    /\ hidden_layer_size \in 1 .. MaxLayer
    /\ nnLabels \in 1 .. MaxLayer
    /\ \E len \in 0 .. (TotalParams(input_layer_size, hidden_layer_size,
                                    nnLabels) + MaxExtra) :
          nn_params \in ParamVectors(len)
    /\ theta1 = <<>> /\ theta2 = <<>> /\ costReg = {}
    /\ grad1 = <<>> /\ grad2 = <<>> /\ grad = <<>> /\ pcNN = "call"
    /\ IdleOVA /\ IdleLR /\ IdleChk /\ IdleNG /\ IdlePred

NextNN ==
    \/ NNReshape
    \/ NNAccumulate
    \/ NNRegularize
    \/ NNReturn

SpecNN == InitNN /\ [][NextNN]_vars

NNTotal == TotalParams(input_layer_size, hidden_layer_size, nnLabels)

\* C3 (as claimed): an nn_params whose length is not
\* hidden*(input+1) + num_labels*(hidden+1) ends in a dimension-mismatch
\* error before any forward/backprop computation and never yields a
\* (cost, gradient) pair.
C3_WrongLengthFailsFast ==
    Size(nn_params) # NNTotal =>
        pcNN \in {"call", "ValueError"}

\* The weight matrix of a layer.
LayerTheta(layer) == IF layer = 1 THEN theta1 ELSE theta2

\* C4: for nn_params of the expected length, unrolling the Theta1/Theta2 that
\* were sliced and reshaped out of nn_params gives nn_params back, every
\* position of nn_params lies in exactly one of the two slices, and the
\* returned gradient has the length of nn_params with entry k the derivative
\* for the weight stored at nn_params position k.
C4_UnrollRoundTrip ==
    Size(nn_params) = NNTotal =>
        /\ pcNN # "ValueError"
        /\ pcNN \in {"reshaped", "accumulated", "regularized", "returned"} =>
              /\ Unroll(theta1, theta2) = nn_params
              /\ Size(Flatten(theta1)) + Size(Flatten(theta2))
                    = Size(nn_params)
        /\ pcNN = "returned" =>
              /\ Size(grad) = Size(nn_params)
              /\ \A k \in DOMAIN grad :
                    /\ grad[k].w = nn_params[k]
                    /\ LET d == grad[k].d
                       IN  LayerTheta(d[1])[d[2]][d[3]] = nn_params[k]

\* C4 witness: a gradient was returned for a network whose two matrices
\* both have more than one row and more than one column.
C4_Witness ==
    /\ pcNN = "returned"
    /\ Size(nn_params) = NNTotal
    /\ hidden_layer_size = 2 /\ nnLabels = 2 /\ input_layer_size = 2
    /\ Size(grad) = 12

\* The positions of a gradient matrix that carry the regularization term.
GradRegPositions(g) ==
    LET cells == (DOMAIN g) \X (DOMAIN g[0])
    IN  {g[rc[1]][rc[2]].d : rc \in {x \in cells : g[x[1]][x[2]].reg # 0}}

\* C8 (as claimed): in each of Theta1 and Theta2 the positions whose gradient
\* entry carries (reg_param/m)*Theta[r,c] are exactly those summed in the
\* cost's regularization term, the positions with column index c >= 1: a
\* bias-column entry (c = 0) carries no such term and a non-bias entry of
\* row 0 does.
C8_GradRegMatchesCost ==
    pcNN \in {"regularized", "returned"} =>
        /\ GradRegPositions(grad1) \cup GradRegPositions(grad2) = costReg
        /\ \A r \in DOMAIN grad1 : grad1[r][0].reg = 0
        /\ \A r \in DOMAIN grad2 : grad2[r][0].reg = 0
        /\ \A c \in (DOMAIN grad1[0]) \ {0} : grad1[0][c].reg = 1
        /\ \A c \in (DOMAIN grad2[0]) \ {0} : grad2[0][c].reg = 1

(***************************************************************************)
(* debugInitializeWeights and checkNNGradients: ex4_utils.py 152-166,      *)
(* 191-234                                                                 *)
(***************************************************************************)
\* Largest reg_param checkNNGradients is called with.
MaxChkReg == 3

\* Lines 199-202.
ChkInputLayerSize == 3

ChkHiddenLayerSize == 5

ChkNumLabels == 3

ChkM == 5

\* np.sin(w) for w = 0..19, in thousandths (rounded).
SinTable ==
    <<0, 841, 909, 141, -757, -959, -279, 657, 989, 412,
      -544, -1000, -537, 420, 991, 650, -288, -961, -751, 150>>

NpSin(w) == SinTable[w + 1]

\* Line 159: np.size(W) for W = np.zeros((fan_out, fan_in + 1))
DebugSize(fan_in, fan_out) == fan_out * (fan_in + 1)

\* The (fan_in, fan_out) each call of lines 205, 206 and 209 passes:
\* debugInitializeWeights(hidden_layer_size, input_layer_size),
\* debugInitializeWeights(num_labels, hidden_layer_size),
\* debugInitializeWeights(input_layer_size - 1, m).
ChkCallArgs(phase) ==
    CASE phase = "Theta1" -> <<ChkHiddenLayerSize, ChkInputLayerSize>>
      [] phase = "Theta2" -> <<ChkNumLabels, ChkHiddenLayerSize>>
      [] phase = "X"      -> <<ChkInputLayerSize - 1, ChkM>>

notChk == <<ovaVars, lrVars, nnVars, ngVars, predVars>>

\* Lines 163-164: one element of the list comprehension over range(np.size(W)).
ChkSinStep ==
    /\ chkPhase \in {"Theta1", "Theta2", "X"}
    /\ LET a == ChkCallArgs(chkPhase)
       IN  Size(chkList) < DebugSize(a[1], a[2])
    /\ chkList' = Concat(chkList, [i \in {0} |-> NpSin(Size(chkList))])
    /\ UNCHANGED <<chkReg, chkPhase, Theta1, Theta2, chkX, chkY, chkParams,
                   chkT1, chkT2, notChk>>

\* Lines 164-166 (the reshape and return) and the assignment of line 205,
\* 206 or 209.
ChkWeightsReturn ==
    /\ chkPhase \in {"Theta1", "Theta2", "X"}
    /\ LET a == ChkCallArgs(chkPhase)
           W == Reshape(chkList, a[2], a[1] + 1)
       IN  /\ Size(chkList) = DebugSize(a[1], a[2])
           /\ Theta1' = IF chkPhase = "Theta1" THEN W ELSE Theta1
           /\ Theta2' = IF chkPhase = "Theta2" THEN W ELSE Theta2
           /\ chkX' = IF chkPhase = "X" THEN W ELSE chkX
    /\ chkList' = <<>>
    /\ chkPhase' = CASE chkPhase = "Theta1" -> "Theta2"
                     [] chkPhase = "Theta2" -> "X"
                     [] chkPhase = "X" -> "y"
    /\ UNCHANGED <<chkReg, chkY, chkParams, chkT1, chkT2, notChk>>

\* Line 212.
ChkLabels ==
    /\ chkPhase = "y"
    /\ chkY' = [i \in Range0(ChkM) |-> i % ChkNumLabels]
    /\ chkPhase' = "unroll"
    /\ UNCHANGED <<chkReg, chkList, Theta1, Theta2, chkX, chkParams, chkT1,
                   chkT2, notChk>>

\* Line 215.
ChkUnroll ==
    /\ chkPhase = "unroll"
    /\ chkParams' = Unroll(Theta1, Theta2)
    /\ chkPhase' = "cost"
    /\ UNCHANGED <<chkReg, chkList, Theta1, Theta2, chkX, chkY, chkT1,
                   chkT2, notChk>>

\* Lines 218-222: the call of nnCostFunction, which recovers theta1 and
\* theta2 from nn_params (lines 78-84); both reshapes succeed for 38 entries.
ChkCost ==
    /\ chkPhase = "cost"
    /\ LET s1 == Theta1Slice(chkParams, ChkInputLayerSize, ChkHiddenLayerSize)
           s2 == Theta2Slice(chkParams, ChkHiddenLayerSize, ChkNumLabels)
       IN  /\ CanReshape(s1, ChkHiddenLayerSize, ChkInputLayerSize + 1)
           /\ CanReshape(s2, ChkNumLabels, ChkHiddenLayerSize + 1)
           /\ chkT1' = Reshape(s1, ChkHiddenLayerSize, ChkInputLayerSize + 1)
           /\ chkT2' = Reshape(s2, ChkNumLabels, ChkHiddenLayerSize + 1)
    /\ chkPhase' = "costed"
    /\ UNCHANGED <<chkReg, chkList, Theta1, Theta2, chkX, chkY, chkParams,
                   notChk>>

InitChk ==
    /\ chkReg \in 0 .. MaxChkReg
    /\ chkPhase = "Theta1" /\ chkList = <<>>
    /\ Theta1 = <<>> /\ Theta2 = <<>> /\ chkX = <<>> /\ chkY = <<>>
    /\ chkParams = <<>> /\ chkT1 = <<>> /\ chkT2 = <<>>
    /\ IdleOVA /\ IdleLR /\ IdleNN /\ IdleNG /\ IdlePred

NextChk ==
    \/ ChkSinStep
    \/ ChkWeightsReturn
    \/ ChkLabels
    \/ ChkUnroll
    \/ ChkCost

SpecChk == InitChk /\ [][NextChk]_vars

\* C9 (as claimed): the matrices checkNNGradients builds have the shapes of
\* the network, Theta1 = (hidden, input+1) = (5, 4) and Theta2 =
\* (num_labels, hidden+1) = (3, 6), and the theta1/theta2 nnCostFunction
\* recovers from the unrolled nn_params equal the Theta1 and Theta2 built.
C9_DriverShapesRoundTrip ==
    /\ chkPhase \in {"Theta2", "X", "y", "unroll", "cost", "costed"} =>
          Shape(Theta1) = <<ChkHiddenLayerSize, ChkInputLayerSize + 1>>
    /\ chkPhase \in {"X", "y", "unroll", "cost", "costed"} =>
          Shape(Theta2) = <<ChkNumLabels, ChkHiddenLayerSize + 1>>
    /\ chkPhase = "costed" => chkT1 = Theta1 /\ chkT2 = Theta2

(***************************************************************************)
(* computeNumericalGradient: ex4_utils.py 168-189                          *)
(*                                                                         *)
(* theta is a vector of reals (a float array); its entries and the values  *)
(* of J are counted in units of tol = 1e-4, so that theta -/+ perturb are  *)
(* exact.                                                                  *)
(***************************************************************************)
\* Largest len(theta) tried.
MaxParams == 3

\* Line 176: tol = 1e-4, one unit.
Tol == 1

\* The cost functions J tried: a sum of squares and a weighted sum.  J is
\* the caller's; these two stand for it.
JNames == {"squares", "weighted"}

JEval(j, v) ==
    IF j = "squares"
    THEN Sum(Square(v))
    ELSE Sum([i \in DOMAIN v |-> (2 * i + 2) * v[i]])

\* theta - perturb and theta + perturb: new arrays, the operands are not
\* changed
VecSub(a, b) == [i \in DOMAIN a |-> a[i] - b[i]]

VecAdd(a, b) == [i \in DOMAIN a |-> a[i] + b[i]]

\* A faulty PerturbReset: line 186 left out.
PerturbKept(pb, p) == pb

\* Line 186: perturb[p] = 0
PerturbReset(pb, p) == [pb EXCEPT ![p] = 0]

notNG == <<ovaVars, lrVars, nnVars, chkVars, predVars>>

\* Line 178: the next p of range(len(theta)), or line 189 when it is
\* exhausted.
NGLoop ==
    /\ pcNG = "for"
    /\ pcNG' = IF ngP < Size(ngTheta) THEN "set" ELSE "returned"
    /\ UNCHANGED <<ngTheta, ngArg, ngJ, perturb, numgrad, ngP, loss1, loss2,
                   evals, notNG>>

\* Line 180.
NGSetPerturb ==
    /\ pcNG = "set"
    /\ perturb' = [perturb EXCEPT ![ngP] = Tol]
    /\ pcNG' = "loss1"
    /\ UNCHANGED <<ngTheta, ngArg, ngJ, numgrad, ngP, loss1, loss2, evals,
                   notNG>>

\* Line 181.
NGLoss1 ==
    /\ pcNG = "loss1"
    /\ LET at == VecSub(ngTheta, perturb)
       IN  /\ loss1' = JEval(ngJ, at)
           /\ evals' = Append(evals, at)
    /\ pcNG' = "loss2"
    /\ UNCHANGED <<ngTheta, ngArg, ngJ, perturb, numgrad, ngP, loss2, notNG>>

\* Line 182.
NGLoss2 ==
    /\ pcNG = "loss2"
    /\ LET at == VecAdd(ngTheta, perturb)
       IN  /\ loss2' = JEval(ngJ, at)
           /\ evals' = Append(evals, at)
    /\ pcNG' = "numgrad"
    /\ UNCHANGED <<ngTheta, ngArg, ngJ, perturb, numgrad, ngP, loss1, notNG>>

\* Line 185.
NGWrite ==
    /\ pcNG = "numgrad"
    /\ numgrad' = [numgrad EXCEPT ![ngP] = (loss2 - loss1) \div (2 * Tol)]
    /\ pcNG' = "reset"
    /\ UNCHANGED <<ngTheta, ngArg, ngJ, perturb, ngP, loss1, loss2, evals,
                   notNG>>

\* Line 186, and on to the next p.
NGReset ==
    /\ pcNG = "reset"
    /\ perturb' = PerturbReset(perturb, ngP)
    /\ ngP' = ngP + 1
    /\ pcNG' = "for"
    /\ UNCHANGED <<ngTheta, ngArg, ngJ, numgrad, loss1, loss2, evals, notNG>>

\* Lines 174-175 done; ngArg is the value theta had when the caller passed it.
InitNG ==
    /\ \E len \in 0 .. MaxParams :
          ngTheta \in [Range0(len) -> (-MaxThetaAbs) .. MaxThetaAbs]
    /\ ngArg = ngTheta
    /\ ngJ \in JNames
    /\ perturb = Zeros(Size(ngTheta))
    /\ numgrad = Zeros(Size(ngTheta))
    /\ ngP = 0 /\ loss1 = 0 /\ loss2 = 0 /\ evals = <<>> /\ pcNG = "for"
    /\ IdleOVA /\ IdleLR /\ IdleNN /\ IdleChk /\ IdlePred

NextNG ==
    \/ NGLoop
    \/ NGSetPerturb
    \/ NGLoss1
    \/ NGLoss2
    \/ NGWrite
    \/ NGReset

SpecNG == InitNG /\ [][NextNG]_vars

\* theta with coordinate p moved by delta, every other coordinate as it is
Moved(th, p, delta) == [th EXCEPT ![p] = th[p] + delta]

\* The central difference of J at the caller's theta along coordinate p.
CentralDifference(p) ==
    (JEval(ngJ, Moved(ngArg, p, Tol)) - JEval(ngJ, Moved(ngArg, p, -Tol)))
        \div (2 * Tol)

\* The number of evaluations of J made so far in iteration ngP.
EvalsThisIteration ==
    CASE pcNG \in {"for", "set", "loss1", "returned"} -> 0
      [] pcNG = "loss2" -> 1
      [] pcNG \in {"numgrad", "reset"} -> 2

\* C10: at the start of every iteration perturb is all zeros; iteration p
\* evaluates J exactly twice, at theta - tol*e_p and then theta + tol*e_p;
\* numgrad[p] is written in iteration p only; the caller's theta is never
\* modified; and the function ends after exactly 2*L evaluations with a
\* result of length L.
C10_NumericalGradientFrame ==
    LET L == Size(ngArg)
    IN  /\ ngTheta = ngArg
        /\ pcNG \in {"for", "set"} => perturb = Zeros(L)
        /\ Len(evals) = 2 * ngP + EvalsThisIteration
        /\ \A k \in 1 .. Len(evals) :
              evals[k] = Moved(ngArg, (k - 1) \div 2,
                               IF k % 2 = 1 THEN -Tol ELSE Tol)
        /\ Size(numgrad) = L
        /\ \A q \in Range0(L) :
              numgrad[q] =
                 IF q < ngP \/ (q = ngP /\ pcNG = "reset")
                 THEN CentralDifference(q) ELSE 0
        /\ pcNG = "returned" => ngP = L /\ Len(evals) = 2 * L

\* C10 witness: the function has returned for a theta of at least two
\* coordinates with a gradient that is not zero everywhere.
C10_Witness ==
    /\ pcNG = "returned"
    /\ Size(ngArg) >= 2
    /\ Len(evals) = 2 * Size(ngArg)
    /\ \E q \in DOMAIN numgrad : numgrad[q] # 0

(***************************************************************************)
(* predictOneVsAllAccuracy: ex3_utils.py 101-112                           *)
(* predict:                 ex4_utils.py 42-64                             *)
(*                                                                         *)
(* Activations are fixed-point numbers, One standing for 1.0.              *)
(***************************************************************************)
\* Largest number of samples m tried.
MaxSamples == 2
\* Largest number of classes tried.
MaxClasses == 2

\* The (input_layer_size, hidden_layer_size) pairs tried.
PredLayerSizes == {<<1, 1>>, <<2, 1>>}

\* The feature values and the weights tried.
PredInputs == {0, 1}

PredWeights == {-2, 2}

\* 1.0 in fixed point: the entries of np.ones((m,1)).
One == 10000

\* 1.0/(1 + e**(-z)) at z = -8, -7, ..., 8, in fixed point (rounded).
SigmoidTable ==
    <<3, 9, 25, 67, 180, 474, 1192, 2689, 5000, 7311, 8808, 9526, 9820,
      9933, 9975, 9991, 9997>>

\* sigmoid(z) for a fixed-point z: the table, linearly interpolated between
\* its points and flat beyond them (increasing, and rounding may make two
\* near values equal, as in floating point).
Sigmoid(z) ==
    LET lo == z \div One
        frac == z % One
    IN  IF lo < -8 THEN SigmoidTable[1]
        ELSE IF lo >= 8 THEN SigmoidTable[17]
        ELSE SigmoidTable[lo + 9]
             + ((SigmoidTable[lo + 10] - SigmoidTable[lo + 9]) * frac)
                   \div One

\* sum over t of a[t]*b[t]
Dot(a, b) == Sum([t \in DOMAIN a |-> a[t] * b[t]])

\* np.dot(A, B.T): entry [i][j] is the product of row i of A and row j of B
DotT(A, B) == [i \in DOMAIN A |-> [j \in DOMAIN B |-> Dot(A[i], B[j])]]

\* np.dot(A, B): entry [i][j] is the product of row i of A and column j of B
DotM(A, B) ==
    [i \in DOMAIN A |->
        [j \in DOMAIN B[0] |-> Sum([t \in DOMAIN B |-> A[i][t] * B[t][j]])]]

\* np.hstack((np.ones((m,1)), A)) with one as the entry of the ones
HstackOnes(one, A) ==
    [i \in DOMAIN A |->
        [j \in Range0(Size(A[i]) + 1) |->
            IF j = 0 THEN one ELSE A[i][j - 1]]]

\* sigmoid applied elementwise
SigmoidM(A) == [i \in DOMAIN A |-> [j \in DOMAIN A[i] |-> Sigmoid(A[i][j])]]

\* multiplication by a scalar, elementwise
ScaleM(s, A) == [i \in DOMAIN A |-> [j \in DOMAIN A[i] |-> s * A[i][j]]]

RECURSIVE ArgmaxLastUpTo(_, _)
\* A faulty ArgmaxUpTo: a later entry equal to the maximum replaces it.
ArgmaxLastUpTo(row, k) ==
    IF k = 1 THEN 0
    ELSE LET best == ArgmaxLastUpTo(row, k - 1)
         IN  IF row[k - 1] >= row[best] THEN k - 1 ELSE best

RECURSIVE ArgmaxUpTo(_, _)
\* np.argmax over row[0..k-1]: a scan that keeps the index of the running
\* maximum and replaces it only by a strictly larger entry
ArgmaxUpTo(row, k) ==
    IF k = 1 THEN 0
    ELSE LET best == ArgmaxUpTo(row, k - 1)
         IN  IF row[k - 1] > row[best] THEN k - 1 ELSE best

\* np.argmax(A, axis=1)
ArgmaxRows(A) == [i \in DOMAIN A |-> ArgmaxUpTo(A[i], Size(A[i]))]

\* Lines 45-46 of predict: a 1-D X becomes a column
AsMatrix(X, ndim) ==
    IF ndim = 1 THEN [i \in DOMAIN X |-> [j \in {0} |-> X[i]]] ELSE X

notPred == <<ovaVars, lrVars, nnVars, chkVars, ngVars>>

\* predictOneVsAllAccuracy, lines 109-112.
PredictOneVsAllAccuracy ==
    /\ pcPred = "call" /\ pKind = "oneVsAll"
    /\ LET probs == DotM(pX, pTheta)
       IN  /\ pOut' = probs
           /\ pLabels' = ArgmaxRows(probs)
    /\ pcPred' = "returned"
    /\ UNCHANGED <<pKind, pX, pNdim, pTheta, pTheta1, pTheta2, pHidden,
                   notPred>>

\* predict, lines 43-64: the hidden layer, the output layer and the labels.
Predict ==
    /\ pcPred = "call" /\ pKind = "nn"
    /\ LET D1 == HstackOnes(1, AsMatrix(pX, pNdim))
           hidden_pred == HstackOnes(One,
                              SigmoidM(ScaleM(One, DotT(D1, pTheta1))))
           output_pred == SigmoidM(DotT(hidden_pred, pTheta2))
       IN  /\ pHidden' = hidden_pred
           /\ pOut' = output_pred
           /\ pLabels' = ArgmaxRows(output_pred)
    /\ pcPred' = "returned"
    /\ UNCHANGED <<pKind, pX, pNdim, pTheta, pTheta1, pTheta2, notPred>>

Matrices(r, c, vals) == [Range0(r) -> [Range0(c) -> vals]]

InitPred ==
    /\ pKind \in {"oneVsAll", "nn"}
    /\ \E m \in 1 .. MaxSamples, k \in 1 .. MaxClasses, nh \in PredLayerSizes :
          IF pKind = "oneVsAll"
          THEN /\ nh[2] = 1
               /\ pNdim = 2
               /\ pX \in Matrices(m, nh[1], PredInputs)
               /\ pTheta \in Matrices(nh[1], k, PredWeights)
               /\ pTheta1 = <<>> /\ pTheta2 = <<>>
          ELSE /\ pNdim \in (IF nh = <<1, 1>> THEN {1, 2} ELSE {2})
               /\ pX \in (IF pNdim = 1
                          THEN [Range0(m) -> PredInputs]
                          ELSE Matrices(m, nh[1], PredInputs))
               /\ pTheta = <<>>
               /\ pTheta1 \in Matrices(nh[2], nh[1] + 1, PredWeights)
               /\ pTheta2 \in Matrices(k, nh[2] + 1, PredWeights)
    /\ pHidden = <<>> /\ pOut = <<>> /\ pLabels = <<>> /\ pcPred = "call"
    /\ IdleOVA /\ IdleLR /\ IdleNN /\ IdleChk /\ IdleNG

NextPred ==
    \/ PredictOneVsAllAccuracy
    \/ Predict

SpecPred == InitPred /\ [][NextPred]_vars

\* The number of classes of the fitted parameters.
PredNumLabels == IF pKind = "oneVsAll" THEN Size(pTheta[0]) ELSE Size(pTheta2)

\* C5: both predictors return exactly m labels, each in [0, num_labels), and
\* the label of sample i is the smallest class index whose score equals the
\* largest score of sample i.
C5_LabelsAreFirstArgmax ==
    pcPred = "returned" =>
        /\ DOMAIN pLabels = Range0(Size(pX))
        /\ \A i \in DOMAIN pLabels :
              /\ pLabels[i] \in Range0(PredNumLabels)
              /\ DOMAIN pOut[i] = Range0(PredNumLabels)
              /\ \A j \in DOMAIN pOut[i] : pOut[i][j] <= pOut[i][pLabels[i]]
              /\ \A j \in Range0(pLabels[i]) : pOut[i][j] < pOut[i][pLabels[i]]

\* C5 witness: a predictor has returned for two samples, one whose largest score
\* is shared by two classes (and the first was chosen) and one whose largest
\* score belongs to the second class alone.
C5_Witness ==
    /\ pcPred = "returned"
    /\ Size(pX) = 2 /\ Size(pLabels) = 2 /\ PredNumLabels = 2
    /\ \E i, k \in DOMAIN pLabels :
          /\ pOut[i][0] = pOut[i][1] /\ pLabels[i] = 0
          /\ pOut[k][0] < pOut[k][1] /\ pLabels[k] = 1

=============================================================================
